---- MODULE Spec2Model ----
(***************************************************************************)
(* Model of the todo server handlers: the todos table, the createTodo,     *)
(* getTodos, updateTodo and deleteTodo handlers, and the wall clock the    *)
(* handlers and the table's defaults read.                                 *)
(***************************************************************************)
EXTENDS Integers, Sequences, FiniteSets, TLC

\* ---- bounds ----
MaxTodos == 2       \* rows ever inserted
MaxTime == 1        \* last clock value
MaxCalls == 2       \* remote calls the user issues after the initial load

\* ---- input domains ----
NULL == "<null>"
Titles == {"Buy milk"}
Descriptions == {"Original description", NULL}
UpdatedTitles == {"Updated Title"}
UpdatedDescriptions == {"Updated description", NULL}
PlaceholderTitle == "Placeholder title"
Ids == 1..(MaxTodos + 1)

\* An optional field is a sequence of length 0 (omitted / undefined) or 1.
Opt(S) == {<<>>} \cup {<<v>> : v \in S}
Present(o) == Len(o) = 1
Val(o) == o[1]

UpdateTodoInput ==
  [id : Ids, title : Opt(UpdatedTitles), description : Opt(UpdatedDescriptions),
   completed : Opt(BOOLEAN)]
CreateTodoInput == [title : Titles, description : Descriptions]
DeleteTodoInput == [id : Ids]

NoInput == [id |-> 0, title |-> <<>>, description |-> <<>>, completed |-> <<>>]

VARIABLES
  todosTable,   \* the rows of the todos table, in the table's natural order
  id_seq,       \* the serial sequence behind the id column: next id to hand out
  now,          \* the wall clock
  call,         \* the handler the last call ran: [op, input]
  result,       \* what the last call produced: [kind, val]
  before,       \* todosTable as it was when the last call started
  deleted,      \* ids removed by a successful deleteTodo
  inserted,     \* every row as it was returned by its insert
  procs,        \* the two concurrent deleteTodo calls: [pc, id, seen, removed, outcome]
  todos,        \* App: the todos state
  isLoading,    \* App: the isLoading state
  isLoadingTodos, \* App: the isLoadingTodos state
  formData,     \* App: the formData state
  calls,        \* App: remote calls in flight: [n, op, input, phase, resp]
  ncalls,       \* App: remote calls issued so far
  failed,       \* App: some remote call has failed
  lateCall      \* App: some call was issued after loadTodos had finished

serverVars == <<todosTable, id_seq, now, call, result, before, deleted, inserted>>
clientVars ==
  <<todos, isLoading, isLoadingTodos, formData, calls, ncalls, failed, lateCall>>
vars == <<serverVars, procs, clientVars>>

\* ---- results ----
Ok(v) == [kind |-> "ok", val |-> v]
NotFound == [kind |-> "error", val |-> <<>>]

\* ---- table helpers ----
RowsWithId(rows, id) == SelectSeq(rows, LAMBDA r : r.id = id)
Exists(rows, id) == Len(RowsWithId(rows, id)) > 0
RowSet(rows) == {rows[k] : k \in 1..Len(rows)}

\* ---- the callers of the concurrent deletes, before they call ----
Callers == {"a", "b"}
IdleCall ==
  [pc |-> "idle", id |-> 0, seen |-> <<>>, removed |-> <<>>,
   outcome |-> [kind |-> "none", val |-> <<>>]]

\* ---- the App component's state before it is mounted ----
EmptyForm == [title |-> "", description |-> NULL]
AppUnmounted ==
  /\ todos = <<>>
  /\ isLoading = FALSE
  /\ isLoadingTodos = TRUE
  /\ formData = EmptyForm
  /\ calls = {}
  /\ ncalls = 0
  /\ failed = FALSE
  /\ lateCall = FALSE

Init ==
  /\ todosTable = <<>>
  /\ id_seq = 1
  /\ now = 0
  /\ call = [op |-> "none", input |-> NoInput]
  /\ result = [kind |-> "none", val |-> <<>>]
  /\ before = <<>>
  /\ deleted = {}
  /\ inserted = <<>>
  /\ procs = [p \in Callers |-> IdleCall]
  /\ AppUnmounted

\* Time passes between calls.
Tick ==
  /\ now < MaxTime
  /\ now' = now + 1
  /\ UNCHANGED <<todosTable, id_seq, call, result, before, deleted, inserted>>
  /\ UNCHANGED <<procs, clientVars>>

\* ---- createTodo ----
NewRowCompleted(id, input, t) ==
  [id |-> id, title |-> input.title, description |-> input.description,
   completed |-> TRUE, created_at |-> t, updated_at |-> t]

NewRowReusedId(id, input, t) ==
  [id |-> 1, title |-> input.title, description |-> input.description,
   completed |-> FALSE, created_at |-> t, updated_at |-> t]

NewRow(id, input, t) ==
  [id |-> id, title |-> input.title, description |-> input.description,
   completed |-> FALSE, created_at |-> t, updated_at |-> t]

CreateTodo ==
  \E input \in CreateTodoInput :
    /\ id_seq <= MaxTodos
    /\ LET row == NewRow(id_seq, input, now) IN
       /\ todosTable' = Append(todosTable, row)
       /\ inserted' = Append(inserted, row)
       /\ result' = Ok(<<row>>)
    /\ id_seq' = id_seq + 1
    /\ call' = [op |-> "createTodo",
                input |-> [id |-> 0, title |-> <<input.title>>,
                           description |-> <<input.description>>,
                           completed |-> <<>>]]
    /\ before' = todosTable
    /\ UNCHANGED <<now, deleted>>
    /\ UNCHANGED <<procs, clientVars>>

\* ---- getTodos ----
\* A select without ORDER BY returns the rows in an order the store chooses.
Orderings(rows) ==
  LET n == Len(rows) IN
  {[k \in 1..n |-> rows[p[k]]] :
     p \in {f \in [1..n -> 1..n] : \A a, b \in 1..n : f[a] = f[b] => a = b}}

SelectAllSkipsNullDescription(rows) ==
  Orderings(SelectSeq(rows, LAMBDA r : r.description # NULL))

SelectAll(rows) == Orderings(rows)

GetTodos ==
  \E selected \in SelectAll(todosTable) :
    /\ result' = Ok(selected)
    /\ call' = [op |-> "getTodos", input |-> NoInput]
    /\ before' = todosTable
    /\ UNCHANGED <<todosTable, id_seq, now, deleted, inserted>>
    /\ UNCHANGED <<procs, clientVars>>

\* ---- updateTodo ----
\* input.title || "Placeholder title"
TitleOrPlaceholder(title) ==
  IF Present(title) /\ Val(title) # "" THEN Val(title) ELSE PlaceholderTitle

\* input.description !== undefined ? input.description : null
DescriptionOrNull(description) ==
  IF Present(description) THEN Val(description) ELSE NULL

\* input.completed || false
CompletedOrFalse(completed) ==
  IF Present(completed) /\ Val(completed) THEN TRUE ELSE FALSE

updateTodoSwappedDates(input, t1, t2) ==
  [id |-> input.id,
   title |-> TitleOrPlaceholder(input.title),
   description |-> DescriptionOrNull(input.description),
   completed |-> CompletedOrFalse(input.completed),
   created_at |-> t2,
   updated_at |-> t1]

\* The record the handler resolves with; t1 and t2 are the two clock reads.
updateTodo(input, t1, t2) ==
  [id |-> input.id,
   title |-> TitleOrPlaceholder(input.title),
   description |-> DescriptionOrNull(input.description),
   completed |-> CompletedOrFalse(input.completed),
   created_at |-> t1,
   updated_at |-> t2]

UpdateTodo ==
  \E input \in UpdateTodoInput, d \in {0, 1} :
    /\ now + d <= MaxTime
    /\ result' = Ok(<<updateTodo(input, now, now + d)>>)
    /\ now' = now + d
    /\ call' = [op |-> "updateTodo", input |-> input]
    /\ before' = todosTable
    /\ UNCHANGED <<todosTable, id_seq, deleted, inserted>>
    /\ UNCHANGED <<procs, clientVars>>

\* ---- deleteTodo ----
\* db.delete(todosTable).where(eq(todosTable.id, input.id)): the rows left
DeleteWhereKeepsAll(rows, id) == rows

DeleteWhereAllRows(rows, id) == IF Exists(rows, id) THEN <<>> ELSE rows

DeleteWhere(rows, id) == SelectSeq(rows, LAMBDA r : r.id # id)

ReturningAllRows(rows, id) == rows

\* .returning(): the rows the statement removed
Returning(rows, id) == RowsWithId(rows, id)

Success == Ok(<<[success |-> TRUE]>>)

deleteTodoOutcomeUnchecked(removed) == Success

\* if (result.length === 0) throw ...; return { success: true }
deleteTodoOutcome(removed) == IF Len(removed) = 0 THEN NotFound ELSE Success

DeleteTodo ==
  \E input \in DeleteTodoInput :
    LET removed == Returning(todosTable, input.id) IN
    /\ todosTable' = DeleteWhere(todosTable, input.id)
    /\ result' = deleteTodoOutcome(removed)
    /\ deleted' = IF Len(removed) = 0 THEN deleted ELSE deleted \cup {input.id}
    /\ call' = [op |-> "deleteTodo",
                input |-> [id |-> input.id, title |-> <<>>,
                           description |-> <<>>, completed |-> <<>>]]
    /\ before' = todosTable
    /\ UNCHANGED <<id_seq, now, inserted>>
    /\ UNCHANGED <<procs, clientVars>>

Next == Tick \/ CreateTodo \/ GetTodos \/ UpdateTodo \/ DeleteTodo

Spec == Init /\ [][Next]_vars

\* ---- two deleteTodo calls running concurrently ----
\* The handler is entered: the call is in flight, its statement not yet run.
DeleteCall(p) ==
  \E input \in DeleteTodoInput :
    /\ procs[p].pc = "idle"
    /\ procs' = [procs EXCEPT ![p] =
                   [@ EXCEPT !.pc = "execute", !.id = input.id,
                             !.seen = todosTable]]
    /\ UNCHANGED <<serverVars, clientVars>>

\* await db.delete(...).where(...).returning().execute(): one statement,
\* which the store runs atomically.
DeleteExecute(p) ==
  /\ procs[p].pc = "execute"
  /\ LET removed == Returning(todosTable, procs[p].id) IN
     /\ todosTable' = DeleteWhere(todosTable, procs[p].id)
     /\ deleted' = IF Len(removed) = 0 THEN deleted
                   ELSE deleted \cup {procs[p].id}
     /\ procs' = [procs EXCEPT ![p] =
                    [@ EXCEPT !.pc = "check", !.removed = removed]]
  /\ UNCHANGED <<id_seq, now, call, result, before, inserted, clientVars>>

\* The continuation after the await: the length check and the return.
DeleteReturn(p) ==
  /\ procs[p].pc = "check"
  /\ procs' = [procs EXCEPT ![p] =
                 [@ EXCEPT !.pc = "done",
                           !.outcome = deleteTodoOutcome(procs[p].removed)]]
  /\ UNCHANGED <<serverVars, clientVars>>

ConcurrentNext ==
  \/ Tick
  \/ CreateTodo
  \/ \E p \in Callers : DeleteCall(p)
  \/ \E p \in Callers : DeleteExecute(p)
  \/ \E p \in Callers : DeleteReturn(p)

ConcurrentSpec == Init /\ [][ConcurrentNext]_vars

\* ---- the App component (client) ----
Pending == [kind |-> "none", val |-> <<>>]
Failure == [kind |-> "error", val |-> <<>>]

\* formData.title.trim()
Trim(title) == IF title = " " THEN "" ELSE title
FormTitles == Titles \cup {" "}
FormInputs == [title : FormTitles, description : Descriptions]

\* (prev) => [...prev, newTodo]
appendTodo(prev, newTodo) == Append(prev, newTodo)

\* prev.map(t => t.id === todo.id ? updatedTodo : t)
replaceTodo(prev, id, updatedTodo) ==
  [k \in 1..Len(prev) |-> IF prev[k].id = id THEN updatedTodo ELSE prev[k]]

\* prev.filter(t => t.id !== todoId)
removeTodo(prev, todoId) == SelectSeq(prev, LAMBDA t : t.id # todoId)

todosAfterFailureAppliesAnyway(prev, c) ==
  IF c.op = "deleteTodo" THEN removeTodo(prev, c.input.id) ELSE prev

\* the catch blocks: console.error only
todosAfterFailure(prev, c) == prev

NewCall(op, input) ==
  [n |-> ncalls, op |-> op, input |-> input, phase |-> "sent", resp |-> Pending]
Answer(c, resp) == (calls \ {c}) \cup {[c EXCEPT !.phase = "answered", !.resp = resp]}

\* The store as an earlier session may have left it.
InitialTables == {<<>>} \cup {<<NewRow(1, input, 0)>> : input \in CreateTodoInput}

\* The component is mounted: useEffect calls loadTodos, which sets
\* isLoadingTodos and sends the getTodos query.
ClientInit ==
  /\ todosTable \in InitialTables
  /\ id_seq = Len(todosTable) + 1
  /\ inserted = todosTable
  /\ now = 0
  /\ call = [op |-> "none", input |-> NoInput]
  /\ result = [kind |-> "none", val |-> <<>>]
  /\ before = <<>>
  /\ deleted = {}
  /\ procs = [p \in Callers |-> IdleCall]
  /\ todos = <<>>
  /\ isLoading = FALSE
  /\ isLoadingTodos = TRUE
  /\ formData = EmptyForm
  /\ calls = {[n |-> 0, op |-> "getTodos", input |-> NoInput,
               phase |-> "sent", resp |-> Pending]}
  /\ ncalls = 1
  /\ failed = FALSE
  /\ lateCall = FALSE

\* The user fills in the form.
TypeForm ==
  \E input \in FormInputs :
    /\ formData = EmptyForm
    /\ formData' = input
    /\ UNCHANGED <<serverVars, procs, todos, isLoading, isLoadingTodos, calls,
                   ncalls, failed, lateCall>>

\* handleSubmit up to its await; the submit button is disabled while isLoading.
HandleSubmit ==
  /\ ncalls <= MaxCalls
  /\ ~isLoading
  /\ Trim(formData.title) # ""
  /\ isLoading' = TRUE
  /\ calls' = calls \cup
       {NewCall("createTodo",
                [id |-> 0, title |-> <<formData.title>>,
                 description |-> <<formData.description>>, completed |-> <<>>])}
  /\ ncalls' = ncalls + 1
  /\ lateCall' = (lateCall \/ ~isLoadingTodos)
  /\ UNCHANGED <<serverVars, procs, todos, isLoadingTodos, formData, failed>>

\* toggleTodo up to its await; the list is rendered only when not loading.
ToggleTodo ==
  \E k \in 1..Len(todos) :
    /\ ncalls <= MaxCalls
    /\ ~isLoadingTodos
    /\ calls' = calls \cup
         {NewCall("updateTodo",
                  [id |-> todos[k].id, title |-> <<>>, description |-> <<>>,
                   completed |-> <<~todos[k].completed>>])}
    /\ ncalls' = ncalls + 1
    /\ lateCall' = (lateCall \/ ~isLoadingTodos)
    /\ UNCHANGED <<serverVars, procs, todos, isLoading, isLoadingTodos,
                   formData, failed>>

\* deleteTodo (of App) up to its await.
AppDeleteTodo ==
  \E k \in 1..Len(todos) :
    /\ ncalls <= MaxCalls
    /\ ~isLoadingTodos
    /\ calls' = calls \cup
         {NewCall("deleteTodo",
                  [id |-> todos[k].id, title |-> <<>>, description |-> <<>>,
                   completed |-> <<>>])}
    /\ ncalls' = ncalls + 1
    /\ lateCall' = (lateCall \/ ~isLoadingTodos)
    /\ UNCHANGED <<serverVars, procs, todos, isLoading, isLoadingTodos,
                   formData, failed>>

\* ---- the server handling the App's calls ----
ServeGetTodos ==
  \E c \in calls, selected \in SelectAll(todosTable) :
    /\ c.op = "getTodos" /\ c.phase = "sent"
    /\ calls' = Answer(c, Ok(selected))
    /\ UNCHANGED <<serverVars, procs, todos, isLoading, isLoadingTodos,
                   formData, ncalls, failed, lateCall>>

ServeCreateTodo ==
  \E c \in calls :
    /\ c.op = "createTodo" /\ c.phase = "sent"
    /\ id_seq <= MaxTodos
    /\ LET input == [title |-> Val(c.input.title),
                     description |-> Val(c.input.description)]
           row == NewRow(id_seq, input, now) IN
       /\ todosTable' = Append(todosTable, row)
       /\ inserted' = Append(inserted, row)
       /\ calls' = Answer(c, Ok(<<row>>))
    /\ id_seq' = id_seq + 1
    /\ UNCHANGED <<now, call, result, before, deleted, procs, todos, isLoading,
                   isLoadingTodos, formData, ncalls, failed, lateCall>>

ServeUpdateTodo ==
  \E c \in calls, d \in {0, 1} :
    /\ c.op = "updateTodo" /\ c.phase = "sent"
    /\ now + d <= MaxTime
    /\ calls' = Answer(c, Ok(<<updateTodo(c.input, now, now + d)>>))
    /\ now' = now + d
    /\ UNCHANGED <<todosTable, id_seq, call, result, before, deleted, inserted,
                   procs, todos, isLoading, isLoadingTodos, formData, ncalls,
                   failed, lateCall>>

ServeDeleteTodo ==
  \E c \in calls :
    /\ c.op = "deleteTodo" /\ c.phase = "sent"
    /\ LET removed == Returning(todosTable, c.input.id) IN
       /\ todosTable' = DeleteWhere(todosTable, c.input.id)
       /\ deleted' = IF Len(removed) = 0 THEN deleted
                     ELSE deleted \cup {c.input.id}
       /\ calls' = Answer(c, deleteTodoOutcome(removed))
    /\ UNCHANGED <<id_seq, now, call, result, before, inserted, procs, todos,
                   isLoading, isLoadingTodos, formData, ncalls, failed, lateCall>>

\* The transport or the store fails the call, before or after the handler ran.
CallFails ==
  \E c \in calls :
    /\ c.resp.kind # "error"
    /\ calls' = Answer(c, Failure)
    /\ UNCHANGED <<serverVars, procs, todos, isLoading, isLoadingTodos,
                   formData, ncalls, failed, lateCall>>

\* ---- the App's continuations after each await ----
Settled(c, op) == c.op = op /\ c.phase = "answered"
Rejects(c) == c.resp.kind = "error"

\* loadTodos: setTodos(result) / catch, finally setIsLoadingTodos(false)
LoadTodosSettles ==
  \E c \in calls :
    /\ Settled(c, "getTodos")
    /\ todos' = IF Rejects(c) THEN todosAfterFailure(todos, c) ELSE c.resp.val
    /\ isLoadingTodos' = FALSE
    /\ calls' = calls \ {c}
    /\ failed' = (failed \/ Rejects(c))
    /\ UNCHANGED <<serverVars, procs, isLoading, formData, ncalls, lateCall>>

\* handleSubmit: append and reset the form / catch, finally setIsLoading(false)
HandleSubmitSettles ==
  \E c \in calls :
    /\ Settled(c, "createTodo")
    /\ todos' = IF Rejects(c) THEN todosAfterFailure(todos, c)
                ELSE appendTodo(todos, c.resp.val[1])
    /\ formData' = IF Rejects(c) THEN formData ELSE EmptyForm
    /\ isLoading' = FALSE
    /\ calls' = calls \ {c}
    /\ failed' = (failed \/ Rejects(c))
    /\ UNCHANGED <<serverVars, procs, isLoadingTodos, ncalls, lateCall>>

\* toggleTodo: replace the todo by the returned one / catch
ToggleTodoSettles ==
  \E c \in calls :
    /\ Settled(c, "updateTodo")
    /\ todos' = IF Rejects(c) THEN todosAfterFailure(todos, c)
                ELSE replaceTodo(todos, c.input.id, c.resp.val[1])
    /\ calls' = calls \ {c}
    /\ failed' = (failed \/ Rejects(c))
    /\ UNCHANGED <<serverVars, procs, isLoading, isLoadingTodos, formData,
                   ncalls, lateCall>>

\* deleteTodo (of App): filter the todo out / catch
AppDeleteTodoSettles ==
  \E c \in calls :
    /\ Settled(c, "deleteTodo")
    /\ todos' = IF Rejects(c) THEN todosAfterFailure(todos, c)
                ELSE removeTodo(todos, c.input.id)
    /\ calls' = calls \ {c}
    /\ failed' = (failed \/ Rejects(c))
    /\ UNCHANGED <<serverVars, procs, isLoading, isLoadingTodos, formData,
                   ncalls, lateCall>>

ClientNext ==
  \/ TypeForm
  \/ HandleSubmit
  \/ ToggleTodo
  \/ AppDeleteTodo
  \/ ServeGetTodos
  \/ ServeCreateTodo
  \/ ServeUpdateTodo
  \/ ServeDeleteTodo
  \/ CallFails
  \/ LoadTodosSettles
  \/ HandleSubmitSettles
  \/ ToggleTodoSettles
  \/ AppDeleteTodoSettles

ClientSpec == ClientInit /\ [][ClientNext]_vars

\* ---- the last call, as the properties below read it ----
Updated == call.op = "updateTodo"
UpdatedExisting == Updated /\ Exists(before, call.input.id)
UpdatedMissing == Updated /\ ~Exists(before, call.input.id)
Deleted == call.op = "deleteTodo"
DeletedExisting == Deleted /\ Exists(before, call.input.id)
DeletedMissing == Deleted /\ ~Exists(before, call.input.id)
Listed == call.op = "getTodos"
Returned == result.val[1]
Old == RowsWithId(before, call.input.id)[1]
Stored == RowsWithId(todosTable, call.input.id)[1]

\* C1: updateTodo with an id the store holds no record for fails with
\* NotFound, returns no record and leaves the store exactly as it was.
C1_UpdateMissingIdFails ==
  UpdatedMissing =>
    /\ result.kind = "error"
    /\ result.val = <<>>
    /\ todosTable = before

\* C2: after updateTodo on an existing id, every omitted field has its
\* pre-update stored value in the returned record and every present field
\* has the input's value.
C2_PartialMerge ==
  UpdatedExisting =>
    /\ result.kind = "ok"
    /\ Len(result.val) = 1
    /\ Returned.title =
         IF Present(call.input.title) THEN Val(call.input.title) ELSE Old.title
    /\ Returned.description =
         IF Present(call.input.description) THEN Val(call.input.description)
         ELSE Old.description
    /\ Returned.completed =
         IF Present(call.input.completed) THEN Val(call.input.completed)
         ELSE Old.completed

\* C3: description is tri-state: on a record with a non-null description, an
\* explicit null gives a stored and returned null, and an omitted description
\* leaves the prior description in the store and in the result.
C3_DescriptionTriState ==
  (UpdatedExisting /\ Old.description # NULL) =>
    /\ result.kind = "ok"
    /\ Exists(todosTable, call.input.id)
    /\ (call.input.description = <<NULL>> =>
          Returned.description = NULL /\ Stored.description = NULL)
    /\ (call.input.description = <<>> =>
          /\ Returned.description = Old.description
          /\ Stored.description = Old.description)

\* C4: after a successful updateTodo on id i the store holds exactly one
\* record with id i and it equals the returned record.
C4_UpdatePersisted ==
  (UpdatedExisting /\ result.kind = "ok") =>
    /\ Len(RowsWithId(todosTable, call.input.id)) = 1
    /\ Stored = Returned

\* C5: a successful updateTodo on an existing record makes the record's
\* updated_at strictly greater than it was before the call.
C5_UpdatedAtIncreases ==
  (UpdatedExisting /\ result.kind = "ok") =>
    /\ Exists(todosTable, call.input.id)
    /\ Stored.updated_at > Old.updated_at
    /\ Returned.updated_at > Old.updated_at

\* C6: updateTodo never changes id or created_at: the returned and the stored
\* id and created_at are those the record had when it was created.
C6_IdAndCreatedAtImmutable ==
  UpdatedExisting =>
    /\ result.kind = "ok"
    /\ Exists(todosTable, call.input.id)
    /\ Returned.id = inserted[call.input.id].id
    /\ Returned.created_at = inserted[call.input.id].created_at
    /\ Stored.id = inserted[call.input.id].id
    /\ Stored.created_at = inserted[call.input.id].created_at

\* C7: deleteTodo with an id the store holds no record for fails with the
\* not-found error and leaves the store as it was.
C7_DeleteMissingIdFails ==
  DeletedMissing =>
    /\ result = NotFound
    /\ todosTable = before

C7_Witness ==
  /\ DeletedMissing
  /\ Len(before) > 0
  /\ result.kind = "error"

\* C8: deleteTodo on an existing id returns {success: true} and removes the
\* record; no later getTodos returns a record with an id that was deleted.
C8_DeletedStaysDeleted ==
  /\ DeletedExisting =>
       /\ result = Success
       /\ ~Exists(todosTable, call.input.id)
  /\ \A i \in deleted : ~Exists(todosTable, i)
  /\ Listed => \A k \in 1..Len(result.val) : result.val[k].id \notin deleted

C8_Witness ==
  /\ Listed
  /\ Len(result.val) > 0
  /\ \E i \in deleted : \E k \in 1..Len(result.val) : result.val[k].id > i

\* C9: a successful deleteTodo(i) leaves every record with another id in the
\* store with all its fields unchanged, and the record count drops by one.
C9_DeleteFrame ==
  (Deleted /\ result.kind = "ok") =>
    /\ \A r \in RowSet(before) :
         r.id # call.input.id => r \in RowSet(todosTable)
    /\ \A r \in RowSet(todosTable) : r \in RowSet(before)
    /\ Len(todosTable) = Len(before) - 1

C9_Witness ==
  /\ Deleted
  /\ result.kind = "ok"
  /\ Len(before) >= 2
  /\ Len(todosTable) >= 1

\* C10: getTodos returns exactly the records in the store, each once with its
\* stored fields, an empty sequence when the store is empty, and it changes
\* nothing in the store.
C10_ListIsStore ==
  Listed =>
    /\ result.kind = "ok"
    /\ Len(result.val) = Len(todosTable)
    /\ RowSet(result.val) = RowSet(todosTable)
    /\ \A a, b \in 1..Len(result.val) :
         result.val[a].id = result.val[b].id => a = b
    /\ (todosTable = <<>> => result.val = <<>>)
    /\ todosTable = before

C10_Witness ==
  /\ Listed
  /\ Len(result.val) >= 2
  /\ \E k \in 1..Len(result.val) : result.val[k].description = NULL
  /\ result.val # todosTable

Created == call.op = "createTodo"

\* C11: for every valid createTodo input the returned record has
\* completed = false, a positive generated id, the input's title and
\* description, created_at = updated_at, and it is in the store afterwards.
C11_CreateDefaults ==
  Created =>
    /\ result.kind = "ok"
    /\ Len(result.val) = 1
    /\ Returned.completed = FALSE
    /\ Returned.id > 0
    /\ Returned.title = Val(call.input.title)
    /\ Returned.description = Val(call.input.description)
    /\ Returned.created_at = Returned.updated_at
    /\ RowsWithId(todosTable, Returned.id) = <<Returned>>
    /\ Len(todosTable) = Len(before) + 1

C11_Witness ==
  /\ Created
  /\ Len(before) >= 1
  /\ Returned.description = NULL
  /\ Returned.created_at > 0

\* C12: no two live records share an id, and the id createTodo gives a
\* record is never one an earlier record, live or deleted, has had.
C12_IdsUniqueNeverReused ==
  /\ \A a, b \in 1..Len(todosTable) :
       todosTable[a].id = todosTable[b].id => a = b
  /\ \A a, b \in 1..Len(inserted) :
       inserted[a].id = inserted[b].id => a = b
  /\ Created =>
       /\ Returned.id \notin deleted
       /\ ~Exists(before, Returned.id)

C12_Witness ==
  /\ Created
  /\ deleted # {}
  /\ Len(todosTable) = 1

\* C13: every record in the store and every record createTodo or updateTodo
\* returns has created_at <= updated_at.
C13_CreatedBeforeUpdated ==
  /\ \A r \in RowSet(todosTable) : r.created_at <= r.updated_at
  /\ ((Created \/ Updated) /\ result.kind = "ok") =>
       Returned.created_at <= Returned.updated_at

C13_Witness ==
  /\ UpdatedExisting
  /\ Returned.created_at < Returned.updated_at

\* ---- the two concurrent deletes, as C15 reads them ----
\* Both calls are for the same id, the row was there when the later call was
\* made, and at that moment the earlier call had not yet run its statement.
BothDone == \A p \in Callers : procs[p].pc = "done"
Overlapped(p, q) ==
  /\ p # q
  /\ procs[p].id = procs[q].id
  /\ Exists(procs[q].seen, procs[q].id)
  /\ Exists(procs[p].seen, procs[p].id)
Succeeded(p) == procs[p].outcome = Success
Rejected(p) == procs[p].outcome = NotFound

\* C15: when two deleteTodo calls for the same existing id run concurrently,
\* exactly one returns {success: true} and the other fails with not-found;
\* the record is removed and no other record is affected.
C15_ConcurrentDeleteOnce ==
  \A p, q \in Callers :
    (BothDone /\ Overlapped(p, q)) =>
      /\ (Succeeded(p) /\ Rejected(q)) \/ (Rejected(p) /\ Succeeded(q))
      /\ ~Exists(todosTable, procs[p].id)
      /\ \A r \in RowSet(procs[p].seen) \cup RowSet(procs[q].seen) :
           r.id # procs[p].id => r \in RowSet(todosTable)

C15_Witness ==
  /\ BothDone
  /\ \E p, q \in Callers : Overlapped(p, q) /\ Succeeded(p) /\ Rejected(q)
  /\ Len(todosTable) >= 1

\* ---- the App's calls, as C14 and C16 read them ----
Gone(c) == \A x \in calls' : x.n # c.n
Quiet == calls = {} /\ ~isLoadingTodos

\* C14: the client changes its local list only when a remote call has
\* returned successfully; when a call fails the list is left as it was and
\* no call is issued in its place.
C14_ListChangesOnlyOnSuccess ==
  [][/\ todos' # todos =>
          \E c \in calls : c.phase = "answered" /\ c.resp.kind = "ok" /\ Gone(c)
     /\ \A c \in calls :
          (Rejects(c) /\ Gone(c)) =>
            /\ todos' = todos
            /\ calls' \subseteq calls
            /\ ncalls' = ncalls]_vars

C14_Witness ==
  /\ failed
  /\ Quiet
  /\ Len(todos) >= 1
  /\ Len(todos) < Len(todosTable)

\* C16: with no failing calls, once the initial load and every call issued
\* while it was in flight have completed, the local list holds exactly the
\* records in the store with their stored values.
C16_ListMatchesStore ==
  (Quiet /\ ~failed /\ ~lateCall) =>
    /\ Len(todos) = Len(todosTable)
    /\ RowSet(todos) = RowSet(todosTable)
====
